---- MODULE Spec2Model ----
(***************************************************************************)
(* A model of nexussdk: the modules project, schemas and acls, which turn  *)
(* function arguments into HTTP requests, and the remote service they      *)
(* address.  Python strings that the code concatenates, quotes or parses   *)
(* are sequences of one-character strings; an optional argument is the     *)
(* empty set (None, or left out) or a singleton (the value passed).        *)
(***************************************************************************)
EXTENDS Integers, Sequences, FiniteSets, TLC

VARIABLES
    transport,  \* "mock": any answer to one call; "service": the modelled remote service
    module,     \* the module of the library the client program drives
    remote,     \* the remote service's resources, by resource path
    created,    \* the (org, project) pairs project.create has created, with the path used
    last        \* the last library call: function, arguments, requests, responses, outcome

vars == <<transport, module, remote, created, last>>

\* The highest revision a resource of the modelled service reaches.
MaxRev == 3

-----------------------------------------------------------------------------
(* Python values *)

None == {}
Some(v) == {v}
IsNone(o) == o = {}
Val(o) == CHOOSE v \in o : TRUE

Digits == <<"0", "1", "2", "3", "4", "5", "6", "7", "8", "9">>

\* str(n) of a non-negative int: its decimal digits.
RECURSIVE str(_)
str(n) == IF n < 10 THEN <<Digits[n + 1]>>
          ELSE str(n \div 10) \o <<Digits[(n % 10) + 1]>>

\* The characters urllib's quote_plus leaves alone.
Unreserved ==
    {"a", "b", "c", "d", "e", "f", "g", "h", "i", "j", "k", "l", "m", "n", "o",
     "p", "q", "r", "s", "t", "u", "v", "w", "x", "y", "z",
     "0", "1", "2", "3", "4", "5", "6", "7", "8", "9", "_", ".", "-", "~"}

\* quote_plus of one character: a space becomes "+", a reserved character %XX.
quote_char(c) ==
    IF c \in Unreserved THEN <<c>>
    ELSE CASE c = " " -> <<"+">>
           [] c = "/" -> <<"%", "2", "F">>
           [] c = "+" -> <<"%", "2", "B">>
           [] c = "%" -> <<"%", "2", "5">>
           [] c = "&" -> <<"%", "2", "6">>
           [] c = "=" -> <<"%", "3", "D">>
           [] c = "?" -> <<"%", "3", "F">>
           [] c = ":" -> <<"%", "3", "A">>

RECURSIVE quote_plus(_)
quote_plus(s) == IF s = <<>> THEN <<>>
                 ELSE quote_char(Head(s)) \o quote_plus(Tail(s))

\* s.split(c)
Split(s, c) ==
    LET cuts == SelectSeq([i \in 1..Len(s) |-> i], LAMBDA i : s[i] = c)
        n == Len(cuts)
    IN [k \in 1..(n + 1) |-> SubSeq(s, IF k = 1 THEN 1 ELSE cuts[k - 1] + 1,
                                       IF k > n THEN Len(s) ELSE cuts[k] - 1)]

StartsWith(s, p) == Len(s) >= Len(p) /\ SubSeq(s, 1, Len(p)) = p

\* The text of a JSON document and json.loads of it.
json_dumps(obj) == [json |-> obj]
json_loads(text) == text.json

-----------------------------------------------------------------------------
(* The call a function hands to nexussdk.utils.http: http_get, http_put,   *)
(* http_post, http_patch or http_delete, with the path (a string, or a     *)
(* list of segments), the body and the keyword arguments.                  *)

NoKw == [k \in {} |-> None]
StrPath(s) == [str |-> s]
ListPath(l) == [list |-> l]
Call(verb, path, body, kwargs) == [verb |-> verb, path |-> path, body |-> body, kwargs |-> kwargs]

-----------------------------------------------------------------------------
(* nexussdk.utils.http and the responses it gives back.  The module is not *)
(* among the sources: it is modelled from the specification (the base URL  *)
(* of the process-wide configuration, URL-encoded path segments, keyword   *)
(* arguments forwarded as query parameters, failure outside the success    *)
(* range with the status code and the body as the detail).                 *)

\* The configured base URL of the service.
Base == <<"h", ":", "/", "/", "n", "x">>

Response(status_code, obj, url) ==
    [status_code |-> status_code, text |-> json_dumps(obj), url |-> url]

is_response_valid(response) ==
    200 <= response.status_code /\ response.status_code < 300

Return(value) == [kind |-> "return", value |-> value]
Raise(message) == [kind |-> "raise", message |-> message]

RECURSIVE JoinSegments(_)
JoinSegments(l) == IF l = <<>> THEN <<>>
                   ELSE <<"/">> \o quote_plus(Head(l)) \o JoinSegments(Tail(l))

bool_str(b) == IF b THEN <<"T", "r", "u", "e">> ELSE <<"F", "a", "l", "s", "e">>

\* The keyword arguments that become query parameters, in the order given;
\* one whose value is None is left out.
ParamKeys == <<"rev", "self", "ancestors">>
kwarg_text(call, k) ==
    IF k = "rev" THEN <<"r", "e", "v", "=">> \o str(Val(call.kwargs[k]))
    ELSE IF k = "self" THEN <<"s", "e", "l", "f", "=">> \o bool_str(call.kwargs[k])
    ELSE <<"a", "n", "c", "e", "s", "t", "o", "r", "s", "=">> \o bool_str(call.kwargs[k])
kwarg_given(call, k) ==
    /\ k \in DOMAIN call.kwargs
    /\ (k = "rev" => ~IsNone(call.kwargs[k]))

RECURSIVE query_string(_, _, _)
query_string(call, i, first) ==
    IF i > Len(ParamKeys) THEN <<>>
    ELSE IF kwarg_given(call, ParamKeys[i])
         THEN (IF first THEN <<"?">> ELSE <<"&">>) \o kwarg_text(call, ParamKeys[i])
                  \o query_string(call, i + 1, FALSE)
         ELSE query_string(call, i + 1, first)

\* The URL requested: a list of segments is encoded and joined under the base;
\* a string is used as it is when it is a full URL (or use_base is False), and
\* put under the base otherwise.
full_url(call) ==
    LET path == IF "list" \in DOMAIN call.path
                THEN Base \o JoinSegments(call.path.list)
                ELSE IF "use_base" \in DOMAIN call.kwargs
                     THEN (IF call.kwargs["use_base"] THEN Base \o call.path.str
                           ELSE call.path.str)
                     ELSE IF StartsWith(call.path.str, Base) THEN call.path.str
                          ELSE Base \o call.path.str
    IN path \o query_string(call, 1, TRUE)

\* The HTTP request on the wire.
http_request(call) == [verb |-> call.verb, url |-> full_url(call), body |-> call.body]

\* What the http_* functions used by schemas and acls give back: the parsed
\* JSON document, or a failure with the status code and the body.
http_result(response) ==
    IF is_response_valid(response) THEN Return(json_loads(response.text))
    ELSE Raise(<<str(response.status_code), response.text>>)

\* The parts of a requested URL: the path under the base, and the query's
\* parameters in their order.
StripBase(url) == IF StartsWith(url, Base) THEN SubSeq(url, Len(Base) + 1, Len(url)) ELSE url
PathOf(url) == Split(StripBase(url), "?")[1]
Param(text) == LET kv == Split(text, "=")
               IN [key |-> kv[1], value |-> IF Len(kv) > 1 THEN kv[2] ELSE <<>>]
Params(url) == LET halves == Split(StripBase(url), "?")
               IN IF Len(halves) = 1 THEN <<>>
                  ELSE LET parts == Split(halves[2], "&")
                       IN [i \in 1..Len(parts) |-> Param(parts[i])]
QueryHas(url, key) == LET ps == Params(url) IN \E i \in 1..Len(ps) : ps[i].key = key
QueryGet(url, key) == LET ps == Params(url)
                      IN {ps[i].value : i \in {j \in 1..Len(ps) : ps[j].key = key}}

-----------------------------------------------------------------------------
(* nexussdk/project.py *)

s_projects == <<"/", "p", "r", "o", "j", "e", "c", "t", "s">>
s_rev == <<"?", "r", "e", "v", "=">>
s_from == <<"?", "f", "r", "o", "m", "=">>
s_size == <<"&", "s", "i", "z", "e", "=">>
s_deprecated == <<"&", "d", "e", "p", "r", "e", "c", "a", "t", "e", "d", "=">>
s_q == <<"&", "q", "=">>
s_true == <<"t", "r", "u", "e">>
s_false == <<"f", "a", "l", "s", "e">>

\* The defaults of list's pagination_from and pagination_size.
project_pagination_from == 0
project_pagination_size == 20

EmptyDict == [k \in {} |-> None]

\* raise Exception("Invalid http request for " + url + " (Status " + ... ) or
\* return json.loads(response_raw.text)
project_exception(response_raw) ==
    <<"Invalid http request for ", response_raw.url, " (Status ",
      str(response_raw.status_code), ")", "\n", response_raw.text>>

project_fetch_url_org_twice(org_label, project_label, rev) ==
    LET url == s_projects \o <<"/">> \o quote_plus(org_label) \o <<"/">> \o quote_plus(org_label)
    IN IF ~IsNone(rev) THEN url \o s_rev \o str(Val(rev)) ELSE url

project_fetch_url(org_label, project_label, rev) ==
    LET url == s_projects \o <<"/">> \o quote_plus(org_label) \o <<"/">> \o quote_plus(project_label)
    IN IF ~IsNone(rev) THEN url \o s_rev \o str(Val(rev)) ELSE url

project_fetch_call(org_label, project_label, rev) ==
    Call("GET", StrPath(project_fetch_url(org_label, project_label, rev)), None, NoKw)

project_fetch_result_no_body(response_raw) ==
    IF ~is_response_valid(response_raw)
    THEN Raise(<<"Invalid http request for ", response_raw.url, " (Status ",
                 str(response_raw.status_code), ")">>)
    ELSE Return(json_loads(response_raw.text))

project_fetch_result(response_raw) ==
    IF ~is_response_valid(response_raw) THEN Raise(project_exception(response_raw))
    ELSE Return(json_loads(response_raw.text))

project_create_url(org_label, project_label) ==
    s_projects \o <<"/">> \o quote_plus(org_label) \o <<"/">> \o quote_plus(project_label)

project_create_call(org_label, project_label, config) ==
    Call("PUT", StrPath(project_create_url(org_label, project_label)),
         Some(IF IsNone(config) THEN EmptyDict ELSE Val(config)), NoKw)

project_create_result(response_raw) ==
    IF ~is_response_valid(response_raw) THEN Raise(project_exception(response_raw))
    ELSE Return(json_loads(response_raw.text))

project_update_url_payload_rev(project, previous_rev) ==
    s_projects \o <<"/">> \o quote_plus(project._organizationLabel) \o <<"/">>
        \o quote_plus(project._label) \o s_rev \o str(project._rev)

project_update_url(project, previous_rev) ==
    LET prev == IF IsNone(previous_rev) THEN project._rev ELSE Val(previous_rev)
    IN s_projects \o <<"/">> \o quote_plus(project._organizationLabel) \o <<"/">>
           \o quote_plus(project._label) \o s_rev \o str(prev)

project_update_call(project, previous_rev) ==
    Call("PUT", StrPath(project_update_url(project, previous_rev)), Some(project), NoKw)

project_update_result_unchecked(response_raw) == Return(json_loads(response_raw.text))

project_update_result(response_raw) ==
    IF ~is_response_valid(response_raw) THEN Raise(project_exception(response_raw))
    ELSE Return(json_loads(response_raw.text))

project_list_url_size_if_given(org_label, pagination_from, pagination_size, deprecated, full_text_search_query) ==
    LET from == IF IsNone(pagination_from) THEN project_pagination_from ELSE Val(pagination_from)
        url1 == IF ~IsNone(org_label) THEN s_projects \o <<"/">> \o quote_plus(Val(org_label))
                ELSE s_projects
        url2 == url1 \o s_from \o str(from)
                    \o (IF ~IsNone(pagination_size) THEN s_size \o str(Val(pagination_size)) ELSE <<>>)
        url3 == IF ~IsNone(deprecated)
                THEN url2 \o s_deprecated \o (IF Val(deprecated) THEN s_true ELSE s_false)
                ELSE url2
    IN IF ~IsNone(full_text_search_query)
       THEN url3 \o s_q \o quote_plus(Val(full_text_search_query))
       ELSE url3

project_list_url(org_label, pagination_from, pagination_size, deprecated, full_text_search_query) ==
    LET from == IF IsNone(pagination_from) THEN project_pagination_from ELSE Val(pagination_from)
        size == IF IsNone(pagination_size) THEN project_pagination_size ELSE Val(pagination_size)
        url1 == IF ~IsNone(org_label) THEN s_projects \o <<"/">> \o quote_plus(Val(org_label))
                ELSE s_projects
        url2 == url1 \o s_from \o str(from) \o s_size \o str(size)
        url3 == IF ~IsNone(deprecated)
                THEN url2 \o s_deprecated \o (IF Val(deprecated) THEN s_true ELSE s_false)
                ELSE url2
    IN IF ~IsNone(full_text_search_query)
       THEN url3 \o s_q \o quote_plus(Val(full_text_search_query))
       ELSE url3

project_list_call(org_label, pagination_from, pagination_size, deprecated, full_text_search_query) ==
    Call("GET", StrPath(project_list_url(org_label, pagination_from, pagination_size,
                                         deprecated, full_text_search_query)), None, NoKw)

project_list_result(response_raw) ==
    IF ~is_response_valid(response_raw) THEN Raise(project_exception(response_raw))
    ELSE Return(json_loads(response_raw.text))

project_deprecate_url(org_label, project_label, previous_rev) ==
    s_projects \o <<"/">> \o quote_plus(org_label) \o <<"/">> \o quote_plus(project_label)
        \o s_rev \o str(previous_rev)

project_deprecate_call(org_label, project_label, previous_rev) ==
    Call("DELETE", StrPath(project_deprecate_url(org_label, project_label, previous_rev)), None, NoKw)

project_deprecate_result_unchecked(response_raw) == Return(json_loads(response_raw.text))

project_deprecate_result(response_raw) ==
    IF ~is_response_valid(response_raw) THEN Raise(project_exception(response_raw))
    ELSE Return(json_loads(response_raw.text))

-----------------------------------------------------------------------------
(* nexussdk/schemas.py *)

s_schemas == <<"/", "s", "c", "h", "e", "m", "a", "s", "/">>
s_tag == <<"?", "t", "a", "g", "=">>
s_tags_rev == <<"/", "t", "a", "g", "s", "?", "r", "e", "v", "=">>

\* The defaults of list's pagination_from and pagination_size.
schemas_pagination_from == 0
schemas_pagination_size == 20

UseBase(b) == [k \in {"use_base"} |-> b]

schemas_list_path(org_label, project_label, pagination_from, pagination_size, deprecated, full_text_search_query) ==
    LET from == IF IsNone(pagination_from) THEN schemas_pagination_from ELSE Val(pagination_from)
        size == IF IsNone(pagination_size) THEN schemas_pagination_size ELSE Val(pagination_size)
        path1 == s_schemas \o quote_plus(org_label) \o <<"/">> \o quote_plus(project_label)
        path2 == path1 \o s_from \o str(from) \o s_size \o str(size)
        path3 == IF ~IsNone(deprecated)
                 THEN path2 \o s_deprecated \o (IF Val(deprecated) THEN s_true ELSE s_false)
                 ELSE path2
    IN \* "if full_text_search_query:" is false of None and of the empty string
       IF ~IsNone(full_text_search_query) /\ Val(full_text_search_query) # <<>>
       THEN path3 \o s_q \o quote_plus(Val(full_text_search_query))
       ELSE path3

schemas_list_call(org_label, project_label, pagination_from, pagination_size, deprecated, full_text_search_query) ==
    Call("GET", StrPath(schemas_list_path(org_label, project_label, pagination_from,
                                          pagination_size, deprecated, full_text_search_query)),
         None, UseBase(TRUE))

\* "if rev is not None and tag is not None: raise Exception(...)"
schemas_fetch_exclusive_unchecked(rev, tag) == FALSE

schemas_fetch_exclusive(rev, tag) == ~IsNone(rev) /\ ~IsNone(tag)

MutuallyExclusive == <<"The arguments rev and tag are mutually exclusive. One or the other must be chosen.">>

schemas_fetch_path(org_label, project_label, schema_id, rev, tag) ==
    LET path1 == s_schemas \o quote_plus(org_label) \o <<"/">> \o quote_plus(project_label)
                     \o <<"/">> \o quote_plus(schema_id)
        path2 == IF ~IsNone(rev) THEN path1 \o s_rev \o str(Val(rev)) ELSE path1
    IN IF ~IsNone(tag) THEN path2 \o s_tag \o Val(tag) ELSE path2

\* The requests fetch issues: none when it raises first.
schemas_fetch_calls(org_label, project_label, schema_id, rev, tag) ==
    IF schemas_fetch_exclusive(rev, tag) THEN <<>>
    ELSE <<Call("GET", StrPath(schemas_fetch_path(org_label, project_label, schema_id, rev, tag)),
                None, UseBase(TRUE))>>

\* schema_obj is a dictionary or a JSON string: [dict |-> d] or [str |-> text].
schemas_create_call_always_put(org_label, project_label, schema_obj, id) ==
    LET obj == IF "dict" \notin DOMAIN schema_obj /\ "str" \in DOMAIN schema_obj
               THEN json_loads(schema_obj.str) ELSE schema_obj.dict
        path == s_schemas \o quote_plus(org_label) \o <<"/">> \o quote_plus(project_label)
    IN IF IsNone(id) THEN Call("PUT", StrPath(path), Some(obj), UseBase(TRUE))
       ELSE Call("PUT", StrPath(path \o <<"/">> \o quote_plus(Val(id))), Some(obj), UseBase(TRUE))

schemas_create_call(org_label, project_label, schema_obj, id) ==
    LET obj == IF "dict" \notin DOMAIN schema_obj /\ "str" \in DOMAIN schema_obj
               THEN json_loads(schema_obj.str) ELSE schema_obj.dict
        path == s_schemas \o quote_plus(org_label) \o <<"/">> \o quote_plus(project_label)
    IN IF IsNone(id) THEN Call("POST", StrPath(path), Some(obj), UseBase(TRUE))
       ELSE Call("PUT", StrPath(path \o <<"/">> \o quote_plus(Val(id))), Some(obj), UseBase(TRUE))

schemas_update_call(schema, previous_rev) ==
    LET prev == IF IsNone(previous_rev) THEN schema._rev ELSE Val(previous_rev)
    IN Call("PUT", StrPath(schema._self \o s_rev \o str(prev)), Some(schema), UseBase(FALSE))

schemas_deprecate_call(schema, previous_rev) ==
    LET prev == IF IsNone(previous_rev) THEN schema._rev ELSE Val(previous_rev)
    IN Call("DELETE", StrPath(schema._self \o s_rev \o str(prev)), None, UseBase(FALSE))

schemas_tag_call(schema, tag_value, rev_to_tag, previous_rev) ==
    LET prev == IF IsNone(previous_rev) THEN schema._rev ELSE Val(previous_rev)
        totag == IF IsNone(rev_to_tag) THEN schema._rev ELSE Val(rev_to_tag)
    IN Call("PUT", StrPath(schema._self \o s_tags_rev \o str(prev)),
            Some([tag |-> tag_value, rev |-> totag]), UseBase(FALSE))

-----------------------------------------------------------------------------
(* nexussdk/acls.py *)

SEGMENT == <<"a", "c", "l", "s">>

_payload(permissions, identity, operation) ==
    LET payload == [k \in {"acl"} |-> <<[permissions |-> permissions, identity |-> identity]>>]
    IN IF ~IsNone(operation) THEN payload @@ ("@type" :> Val(operation)) ELSE payload

RevKw(rev) == [k \in {"rev"} |-> rev]

acls_fetch_call(subpath, rev, self) ==
    Call("GET", ListPath(<<SEGMENT, subpath>>), None, ("rev" :> rev) @@ ("self" :> self))

acls_fetch__call(path, rev, self) ==
    Call("GET", StrPath(path), None, ("rev" :> rev) @@ ("self" :> self))

acls_list_call(subpath, ancestors, self) ==
    Call("GET", ListPath(<<SEGMENT, subpath>>), None, ("ancestors" :> ancestors) @@ ("self" :> self))

acls_list__call(path, ancestors, self) ==
    Call("GET", StrPath(path), None, ("ancestors" :> ancestors) @@ ("self" :> self))

acls_replace_call(subpath, permissions, identity, rev) ==
    Call("PUT", ListPath(<<SEGMENT, subpath>>), Some(_payload(permissions, identity, None)),
         RevKw(Some(rev)))

acls_replace__call(path, payload, rev) ==
    Call("PUT", StrPath(path), Some(payload), RevKw(Some(rev)))

acls_append_call(subpath, permissions, identity, rev) ==
    Call("PATCH", ListPath(<<SEGMENT, subpath>>),
         Some(_payload(permissions, identity, Some("Append"))), RevKw(Some(rev)))

acls_append__call(path, payload, rev) ==
    Call("PATCH", StrPath(path), Some(payload), RevKw(Some(rev)))

acls_subtract_call_append(subpath, permissions, identity, rev) ==
    Call("PATCH", ListPath(<<SEGMENT, subpath>>),
         Some(_payload(permissions, identity, Some("Append"))), RevKw(Some(rev)))

acls_subtract_call(subpath, permissions, identity, rev) ==
    Call("PATCH", ListPath(<<SEGMENT, subpath>>),
         Some(_payload(permissions, identity, Some("Subtract"))), RevKw(Some(rev)))

acls_subtract__call(path, payload, rev) ==
    Call("PATCH", StrPath(path), Some(payload), RevKw(Some(rev)))

acls_delete_call_no_rev(subpath, rev) ==
    Call("DELETE", ListPath(<<SEGMENT, subpath>>), None, NoKw)

acls_delete_call(subpath, rev) ==
    Call("DELETE", ListPath(<<SEGMENT, subpath>>), None, RevKw(Some(rev)))

acls_delete__call(path, rev) ==
    Call("DELETE", StrPath(path), None, RevKw(Some(rev)))

-----------------------------------------------------------------------------
(* The remote service, modelled from the specification: resources carry a  *)
(* revision; a mutation must name the current revision and is refused with *)
(* a conflict otherwise; deprecation is terminal; a label is accepted when *)
(* it is made of unreserved characters.                                    *)

Resource(rev, deprecated, tags, acl) ==
    [rev |-> rev, deprecated |-> deprecated, tags |-> tags, acl |-> acl]

Segments(url) == Split(PathOf(url), "/")
ValidLabel(s) == s # <<>> /\ \A i \in 1..Len(s) : s[i] \in Unreserved

\* A requested URL, parsed: its path, the path's segments and the query's parameters.
ParseUrl(url) ==
    LET halves == Split(StripBase(url), "?")
    IN [path |-> halves[1], segs |-> Split(halves[1], "/"),
        params |-> IF Len(halves) = 1 THEN <<>>
                   ELSE LET parts == Split(halves[2], "&")
                        IN [i \in 1..Len(parts) |-> Param(parts[i])]]
Values(u, key) == {u.params[i].value : i \in {j \in 1..Len(u.params) : u.params[j].key = key}}
RevParam(u) == Values(u, <<"r", "e", "v">>)
TagParam(u) == Values(u, <<"t", "a", "g">>)
DeprecatedParam(u) == Values(u, <<"d", "e", "p", "r", "e", "c", "a", "t", "e", "d">>)

Answer(status, obj, req, rem) == [resp |-> Response(status, obj, req.url), remote |-> rem]
Refuse(status, reason, req, rem) == Answer(status, [reason |-> reason], req, rem)
Put(rem, key, res) == [k \in DOMAIN rem \cup {key} |-> IF k = key THEN res ELSE rem[k]]
CurrentRev(rem, key) == IF key \in DOMAIN rem THEN rem[key].rev ELSE 0

RECURSIVE JoinPath(_)
JoinPath(segs) == IF Len(segs) = 1 THEN Head(segs)
                  ELSE Head(segs) \o <<"/">> \o JoinPath(Tail(segs))

s_tags == <<"t", "a", "g", "s">>

\* The resource a request addresses: its path, without a trailing /tags.
KeyOf(u) == IF Len(u.segs) = 6 /\ u.segs[6] = s_tags THEN JoinPath(SubSeq(u.segs, 1, 5))
            ELSE u.path
ResourceKey(url) == KeyOf(ParseUrl(url))

project_payload(key, org_label, label, r, rev) ==
    [_label |-> label, _organizationLabel |-> org_label, _rev |-> rev,
     _deprecated |-> (r.deprecated /\ rev = r.rev), _self |-> Base \o key]

schema_payload(key, r, rev) ==
    [_self |-> Base \o key, _rev |-> rev, _deprecated |-> (r.deprecated /\ rev = r.rev)]

Listing(rem, req, u) ==
    LET dep == DeprecatedParam(u)
        keys == {k \in DOMAIN rem :
                    /\ LET ksegs == Split(k, "/")
                       IN \A i \in 2..Len(u.segs) : ksegs[i] = u.segs[i]
                    /\ (dep = {s_true} => rem[k].deprecated)
                    /\ (dep = {s_false} => ~rem[k].deprecated)}
    IN Answer(200, [_total |-> Cardinality(keys), _results |-> keys], req, rem)

\* A write that names a revision: refused unless the resource exists, the
\* revision is its current one and it is not deprecated.
Guarded(rem, req, u, key, then) ==
    IF key \notin DOMAIN rem THEN Refuse(404, "not found", req, rem)
    ELSE IF RevParam(u) # {str(rem[key].rev)} THEN Refuse(409, "conflict", req, rem)
    ELSE IF rem[key].deprecated THEN Refuse(400, "deprecated", req, rem)
    ELSE then

ServeProjects(rem, req, u) ==
    LET segs == u.segs
        key == u.path
        revs == RevParam(u)
        payload(r, rev) == project_payload(key, segs[3], segs[4], r, rev)
    IN IF req.verb = "GET" /\ Len(segs) <= 3 THEN Listing(rem, req, u)
       ELSE IF Len(segs) # 4 THEN Refuse(404, "not found", req, rem)
       ELSE IF req.verb = "GET" THEN
           IF key \notin DOMAIN rem THEN Refuse(404, "not found", req, rem)
           ELSE IF revs = {} THEN Answer(200, payload(rem[key], rem[key].rev), req, rem)
           ELSE IF \E n \in 1..rem[key].rev : revs = {str(n)}
                THEN Answer(200, payload(rem[key], CHOOSE n \in 1..rem[key].rev : revs = {str(n)}),
                            req, rem)
                ELSE Refuse(404, "no such revision", req, rem)
       ELSE IF req.verb = "PUT" /\ revs = {} THEN
           IF key \in DOMAIN rem THEN Refuse(409, "already exists", req, rem)
           ELSE IF ~(ValidLabel(segs[3]) /\ ValidLabel(segs[4])) THEN Refuse(400, "invalid label", req, rem)
           ELSE LET r == Resource(1, FALSE, {}, {})
                IN Answer(201, payload(r, 1), req, Put(rem, key, r))
       ELSE IF req.verb = "PUT" THEN
           Guarded(rem, req, u, key,
                   LET r == Resource(rem[key].rev + 1, FALSE, {}, {})
                   IN Answer(200, payload(r, r.rev), req, Put(rem, key, r)))
       ELSE IF req.verb = "DELETE" THEN
           Guarded(rem, req, u, key,
                   LET r == Resource(rem[key].rev + 1, TRUE, {}, {})
                   IN Answer(200, payload(r, r.rev), req, Put(rem, key, r)))
       ELSE Refuse(405, "method not allowed", req, rem)

\* The id the service gives a schema created without one.
GenId == <<"g">>

ServeSchemas(rem, req, u) ==
    LET segs == u.segs
        key == KeyOf(u)
        revs == RevParam(u)
        tags == TagParam(u)
    IN IF Len(segs) = 4 THEN
           IF req.verb = "GET" THEN Listing(rem, req, u)
           ELSE IF req.verb = "POST" THEN
               LET k == u.path \o <<"/">> \o GenId
                   r == Resource(1, FALSE, {}, {})
               IN Answer(201, schema_payload(k, r, 1), req, Put(rem, k, r))
           ELSE Refuse(405, "method not allowed", req, rem)
       ELSE IF Len(segs) = 5 THEN
           IF req.verb = "GET" THEN
               IF key \notin DOMAIN rem THEN Refuse(404, "not found", req, rem)
               ELSE IF revs = {} /\ tags = {} THEN Answer(200, schema_payload(key, rem[key], rem[key].rev), req, rem)
               ELSE IF revs # {} /\ tags # {} THEN Refuse(400, "rev and tag", req, rem)
               ELSE IF \E n \in 1..rem[key].rev : revs = {str(n)}
                    THEN Answer(200, schema_payload(key, rem[key],
                                    CHOOSE n \in 1..rem[key].rev : revs = {str(n)}), req, rem)
               ELSE IF \E t \in rem[key].tags : tags = {t[1]}
                    THEN Answer(200, schema_payload(key, rem[key],
                                    (CHOOSE t \in rem[key].tags : tags = {t[1]})[2]), req, rem)
               ELSE Refuse(404, "no such revision or tag", req, rem)
           ELSE IF req.verb = "PUT" /\ revs = {} THEN
               IF key \in DOMAIN rem THEN Refuse(409, "already exists", req, rem)
               ELSE LET r == Resource(1, FALSE, {}, {})
                    IN Answer(201, schema_payload(key, r, 1), req, Put(rem, key, r))
           ELSE IF req.verb = "PUT" THEN
               Guarded(rem, req, u, key,
                       LET r == Resource(rem[key].rev + 1, FALSE, rem[key].tags, {})
                       IN Answer(200, schema_payload(key, r, r.rev), req, Put(rem, key, r)))
           ELSE IF req.verb = "DELETE" THEN
               Guarded(rem, req, u, key,
                       LET r == Resource(rem[key].rev + 1, TRUE, rem[key].tags, {})
                       IN Answer(200, schema_payload(key, r, r.rev), req, Put(rem, key, r)))
           ELSE Refuse(405, "method not allowed", req, rem)
       ELSE IF Len(segs) = 6 /\ segs[6] = s_tags /\ req.verb = "PUT" THEN
           Guarded(rem, req, u, key,
                   LET body == Val(req.body)
                   IN IF body.rev \notin 1..rem[key].rev THEN Refuse(400, "no such revision", req, rem)
                      ELSE LET r == Resource(rem[key].rev + 1, FALSE,
                                             {t \in rem[key].tags : t[1] # body.tag}
                                                 \cup {<<body.tag, body.rev>>}, {})
                           IN Answer(200, schema_payload(key, r, r.rev), req, Put(rem, key, r)))
       ELSE Refuse(404, "not found", req, rem)

AclEntries(body) ==
    UNION {{<<body["acl"][i].identity, body["acl"][i].permissions[j]>> :
               j \in 1..Len(body["acl"][i].permissions)} : i \in 1..Len(body["acl"])}

acl_payload(key, r) == [_self |-> Base \o key, _rev |-> r.rev, acl |-> r.acl]

ServeAcls(rem, req, u) ==
    LET key == u.path
        cur == CurrentRev(rem, key)
        acl == IF key \in DOMAIN rem THEN rem[key].acl ELSE {}
        revs == RevParam(u)
        next(a) == LET r == Resource(cur + 1, FALSE, {}, a)
                   IN Answer(200, acl_payload(key, r), req, Put(rem, key, r))
    IN IF req.verb = "GET" THEN
           IF revs = {} \/ \E n \in 0..cur : revs = {str(n)}
           THEN Answer(200, acl_payload(key, Resource(cur, FALSE, {}, acl)), req, rem)
           ELSE Refuse(404, "no such revision", req, rem)
       ELSE IF revs # {str(cur)} THEN Refuse(409, "conflict", req, rem)
       ELSE IF req.verb = "PUT" THEN next(AclEntries(Val(req.body)))
       ELSE IF req.verb = "PATCH" THEN
           LET body == Val(req.body)
           IN IF "@type" \notin DOMAIN body THEN Refuse(400, "no operation", req, rem)
              ELSE IF body["@type"] = "Append" THEN next(acl \cup AclEntries(body))
              ELSE IF body["@type"] = "Subtract" THEN next(acl \ AclEntries(body))
              ELSE Refuse(400, "no such operation", req, rem)
       ELSE IF req.verb = "DELETE" THEN next({})
       ELSE Refuse(405, "method not allowed", req, rem)

Serve(rem, req) ==
    LET u == ParseUrl(req.url)
    IN IF Len(u.segs) < 2 THEN Refuse(404, "not found", req, rem)
       ELSE IF u.segs[2] = Tail(s_projects) THEN ServeProjects(rem, req, u)
       ELSE IF u.segs[2] = <<"s", "c", "h", "e", "m", "a", "s">> THEN ServeSchemas(rem, req, u)
       ELSE IF u.segs[2] = SEGMENT THEN ServeAcls(rem, req, u)
       ELSE Refuse(404, "not found", req, rem)

\* The answers a mock transport gives: any of these statuses, whatever the request.
MockStatuses == {200, 409, 500}
MockAnswer(status, call) ==
    IF status = 200 THEN Response(200, [_rev |-> 1], full_url(call))
    ELSE Response(status, [reason |-> "mock"], full_url(call))

\* The service is modelled up to revision MaxRev and one generated id.
WithinBounds(rem, req, answer) ==
    /\ \A k \in DOMAIN answer.remote : answer.remote[k].rev <= MaxRev
    /\ ~(req.verb = "POST" /\ (PathOf(req.url) \o <<"/">> \o GenId) \in DOMAIN rem)

\* The possible exchanges of one call: the response, and the service's resources after it.
Exchange(call) ==
    IF transport = "mock"
    THEN {[resp |-> MockAnswer(st, call), remote |-> remote] : st \in MockStatuses}
    ELSE LET req == http_request(call)
             answer == Serve(remote, req)
         IN IF WithinBounds(remote, req, answer) THEN {answer} ELSE {}

-----------------------------------------------------------------------------
(* The arguments the functions are called with *)

OrgLabels == {<<"a">>, <<"a", "/", "b">>}
ProjectLabels == {<<"a">>, <<"b">>, <<"b", " ">>}
Revs == 0..MaxRev
OptRevs == {None} \cup {Some(n) : n \in Revs}
PreviousRevs == {None} \cup {Some(n) : n \in 1..MaxRev}
Configs == {None, Some([description |-> "d"])}

\* Project payloads as fetch returns them, at any revision.
ProjectPayloads ==
    {[_label |-> <<p>>, _organizationLabel |-> <<"a">>, _rev |-> r, _deprecated |-> FALSE,
      _self |-> Base \o s_projects \o <<"/", "a", "/", p>>] : p \in {"a", "b"}, r \in 1..MaxRev}

ListOrgs == {None, Some(<<"a">>)}
PaginationFroms == {None, Some(0), Some(3)}
PaginationSizes == {None, Some(7)}
Deprecateds == {None, Some(TRUE), Some(FALSE)}
Queries == {None, Some(<<>>), Some(<<"a", " ", "b">>)}

SchemaOrgs == {<<"a">>}
SchemaProjects == {<<"a">>}
SchemaIds == {<<"s", ":", "1">>, GenId}
Tags == {<<"t">>}
OptTags == {None} \cup {Some(t) : t \in Tags}
SchemaObjs == {[dict |-> [shapes |-> "x"]], [str |-> json_dumps([shapes |-> "x"])]}
\* Payloads of the schema created with an id, as fetch returns them, at any revision.
SchemaPayloads ==
    {[_self |-> Base \o s_schemas \o <<"a", "/", "a", "/">> \o quote_plus(id), _rev |-> r,
      _deprecated |-> FALSE] : id \in {<<"s", ":", "1">>}, r \in 1..MaxRev}
RevsToTag == {None, Some(1)}

Subpaths == {<<"a">>}
AclPaths == {Base \o <<"/">> \o SEGMENT \o <<"/", "a">>}
Identities == {[realm |-> "r", subject |-> "u"]}
Permissions == {<<"read">>, <<"read", "write">>}
AclPayloads == {_payload(<<"read">>, i, op) : i \in Identities, op \in {None, Some("Append"), Some("Subtract")}}

-----------------------------------------------------------------------------
(* The calls *)

NoCall == [fn |-> "none", args |-> EmptyDict, reqs |-> <<>>, resps |-> <<>>,
           outcome |-> [kind |-> "none"]]

\* Against the mock transport one call is made; against the service, any number.
Ready == transport = "service" \/ last.fn = "none"

Turn(m) == module = m /\ Ready

Do(fn, args, reqs, resps, outcome, rem) ==
    /\ last' = [fn |-> fn, args |-> args, reqs |-> reqs, resps |-> resps, outcome |-> outcome]
    /\ remote' = rem
    /\ UNCHANGED <<transport, module>>

ProjectFetch ==
    /\ Turn("project")
    /\ \E org_label \in OrgLabels, project_label \in ProjectLabels, rev \in OptRevs :
        LET call == project_fetch_call(org_label, project_label, rev)
        IN \E x \in Exchange(call) :
              /\ Do("project.fetch",
                    [org_label |-> org_label, project_label |-> project_label, rev |-> rev],
                    <<call>>, <<x.resp>>, project_fetch_result(x.resp), x.remote)
              /\ UNCHANGED created

ProjectCreate ==
    /\ Turn("project")
    /\ \E org_label \in OrgLabels, project_label \in ProjectLabels, config \in Configs :
        LET call == project_create_call(org_label, project_label, config)
        IN \E x \in Exchange(call) :
              /\ Do("project.create",
                    [org_label |-> org_label, project_label |-> project_label, config |-> config],
                    <<call>>, <<x.resp>>, project_create_result(x.resp), x.remote)
              /\ created' = IF project_create_result(x.resp).kind = "return"
                            THEN created \cup {[org_label |-> org_label,
                                                project_label |-> project_label,
                                                url |-> call.path.str]}
                            ELSE created

ProjectUpdate ==
    /\ Turn("project")
    /\ \E project \in ProjectPayloads, previous_rev \in PreviousRevs :
        LET call == project_update_call(project, previous_rev)
        IN \E x \in Exchange(call) :
              /\ Do("project.update",
                    [project |-> project, previous_rev |-> previous_rev],
                    <<call>>, <<x.resp>>, project_update_result(x.resp), x.remote)
              /\ UNCHANGED created

ProjectList(Froms, Sizes, Qs) ==
    /\ Turn("project")
    /\ \E org_label \in ListOrgs, pagination_from \in Froms, pagination_size \in Sizes,
       deprecated \in Deprecateds, full_text_search_query \in Qs :
        LET call == project_list_call(org_label, pagination_from, pagination_size,
                                      deprecated, full_text_search_query)
        IN \E x \in Exchange(call) :
              /\ Do("project.list",
                    [org_label |-> org_label, pagination_from |-> pagination_from,
                     pagination_size |-> pagination_size, deprecated |-> deprecated,
                     full_text_search_query |-> full_text_search_query],
                    <<call>>, <<x.resp>>, project_list_result(x.resp), x.remote)
              /\ UNCHANGED created

ProjectDeprecate ==
    /\ Turn("project")
    /\ \E org_label \in OrgLabels, project_label \in ProjectLabels, previous_rev \in 1..MaxRev :
        LET call == project_deprecate_call(org_label, project_label, previous_rev)
        IN \E x \in Exchange(call) :
              /\ Do("project.deprecate",
                    [org_label |-> org_label, project_label |-> project_label,
                     previous_rev |-> previous_rev],
                    <<call>>, <<x.resp>>, project_deprecate_result(x.resp), x.remote)
              /\ UNCHANGED created

SchemasList(Froms, Sizes, Qs) ==
    /\ Turn("schemas")
    /\ \E org_label \in SchemaOrgs, project_label \in SchemaProjects, pagination_from \in Froms,
       pagination_size \in Sizes, deprecated \in Deprecateds, full_text_search_query \in Qs :
        LET call == schemas_list_call(org_label, project_label, pagination_from,
                                      pagination_size, deprecated, full_text_search_query)
        IN \E x \in Exchange(call) :
              /\ Do("schemas.list",
                    [org_label |-> org_label, project_label |-> project_label,
                     pagination_from |-> pagination_from, pagination_size |-> pagination_size,
                     deprecated |-> deprecated, full_text_search_query |-> full_text_search_query],
                    <<call>>, <<x.resp>>, http_result(x.resp), x.remote)
              /\ UNCHANGED created

SchemasFetch ==
    /\ Turn("schemas")
    /\ \E org_label \in SchemaOrgs, project_label \in SchemaProjects, schema_id \in SchemaIds,
       rev \in OptRevs, tag \in OptTags :
        LET calls == schemas_fetch_calls(org_label, project_label, schema_id, rev, tag)
            args == [org_label |-> org_label, project_label |-> project_label,
                     schema_id |-> schema_id, rev |-> rev, tag |-> tag]
        IN /\ IF calls = <<>>
              THEN Do("schemas.fetch", args, calls, <<>>, Raise(MutuallyExclusive), remote)
              ELSE \E x \in Exchange(calls[1]) :
                      Do("schemas.fetch", args, calls, <<x.resp>>,
                         http_result(x.resp), x.remote)
           /\ UNCHANGED created

SchemasCreate ==
    /\ Turn("schemas")
    /\ \E org_label \in SchemaOrgs, project_label \in SchemaProjects, schema_obj \in SchemaObjs,
       id \in {None, Some(<<"s", ":", "1">>)} :
        LET call == schemas_create_call(org_label, project_label, schema_obj, id)
        IN \E x \in Exchange(call) :
              /\ Do("schemas.create",
                    [org_label |-> org_label, project_label |-> project_label,
                     schema_obj |-> schema_obj, id |-> id],
                    <<call>>, <<x.resp>>, http_result(x.resp), x.remote)
              /\ UNCHANGED created

SchemasUpdate ==
    /\ Turn("schemas")
    /\ \E schema \in SchemaPayloads, previous_rev \in PreviousRevs :
        LET call == schemas_update_call(schema, previous_rev)
        IN \E x \in Exchange(call) :
              /\ Do("schemas.update", [schema |-> schema, previous_rev |-> previous_rev],
                    <<call>>, <<x.resp>>, http_result(x.resp), x.remote)
              /\ UNCHANGED created

SchemasDeprecate ==
    /\ Turn("schemas")
    /\ \E schema \in SchemaPayloads, previous_rev \in PreviousRevs :
        LET call == schemas_deprecate_call(schema, previous_rev)
        IN \E x \in Exchange(call) :
              /\ Do("schemas.deprecate", [schema |-> schema, previous_rev |-> previous_rev],
                    <<call>>, <<x.resp>>, http_result(x.resp), x.remote)
              /\ UNCHANGED created

SchemasTag ==
    /\ Turn("schemas")
    /\ \E schema \in SchemaPayloads, tag_value \in Tags, rev_to_tag \in RevsToTag,
       previous_rev \in PreviousRevs :
        LET call == schemas_tag_call(schema, tag_value, rev_to_tag, previous_rev)
        IN \E x \in Exchange(call) :
              /\ Do("schemas.tag",
                    [schema |-> schema, tag_value |-> tag_value, rev_to_tag |-> rev_to_tag,
                     previous_rev |-> previous_rev],
                    <<call>>, <<x.resp>>, http_result(x.resp), x.remote)
              /\ UNCHANGED created

AclsFetch ==
    /\ Turn("acls")
    /\ \E subpath \in Subpaths, rev \in OptRevs, self \in BOOLEAN :
        LET call == acls_fetch_call(subpath, rev, self)
        IN \E x \in Exchange(call) :
              /\ Do("acls.fetch", [subpath |-> subpath, rev |-> rev, self |-> self],
                    <<call>>, <<x.resp>>, http_result(x.resp), x.remote)
              /\ UNCHANGED created

AclsFetch_ ==
    /\ Turn("acls")
    /\ \E path \in AclPaths, rev \in OptRevs, self \in BOOLEAN :
        LET call == acls_fetch__call(path, rev, self)
        IN \E x \in Exchange(call) :
              /\ Do("acls.fetch_", [path |-> path, rev |-> rev, self |-> self],
                    <<call>>, <<x.resp>>, http_result(x.resp), x.remote)
              /\ UNCHANGED created

AclsList ==
    /\ Turn("acls")
    /\ \E subpath \in Subpaths, ancestors \in BOOLEAN, self \in BOOLEAN :
        LET call == acls_list_call(subpath, ancestors, self)
        IN \E x \in Exchange(call) :
              /\ Do("acls.list", [subpath |-> subpath, ancestors |-> ancestors, self |-> self],
                    <<call>>, <<x.resp>>, http_result(x.resp), x.remote)
              /\ UNCHANGED created

AclsList_ ==
    /\ Turn("acls")
    /\ \E path \in AclPaths, ancestors \in BOOLEAN, self \in BOOLEAN :
        LET call == acls_list__call(path, ancestors, self)
        IN \E x \in Exchange(call) :
              /\ Do("acls.list_", [path |-> path, ancestors |-> ancestors, self |-> self],
                    <<call>>, <<x.resp>>, http_result(x.resp), x.remote)
              /\ UNCHANGED created

AclsReplace ==
    /\ Turn("acls")
    /\ \E subpath \in Subpaths, permissions \in Permissions, identity \in Identities, rev \in Revs :
        LET call == acls_replace_call(subpath, permissions, identity, rev)
        IN \E x \in Exchange(call) :
              /\ Do("acls.replace", [subpath |-> subpath, permissions |-> permissions, identity |-> identity, rev |-> rev],
                    <<call>>, <<x.resp>>, http_result(x.resp), x.remote)
              /\ UNCHANGED created

AclsReplace_ ==
    /\ Turn("acls")
    /\ \E path \in AclPaths, payload \in AclPayloads, rev \in Revs :
        LET call == acls_replace__call(path, payload, rev)
        IN \E x \in Exchange(call) :
              /\ Do("acls.replace_", [path |-> path, payload |-> payload, rev |-> rev],
                    <<call>>, <<x.resp>>, http_result(x.resp), x.remote)
              /\ UNCHANGED created

AclsAppend ==
    /\ Turn("acls")
    /\ \E subpath \in Subpaths, permissions \in Permissions, identity \in Identities, rev \in Revs :
        LET call == acls_append_call(subpath, permissions, identity, rev)
        IN \E x \in Exchange(call) :
              /\ Do("acls.append", [subpath |-> subpath, permissions |-> permissions, identity |-> identity, rev |-> rev],
                    <<call>>, <<x.resp>>, http_result(x.resp), x.remote)
              /\ UNCHANGED created

AclsAppend_ ==
    /\ Turn("acls")
    /\ \E path \in AclPaths, payload \in AclPayloads, rev \in Revs :
        LET call == acls_append__call(path, payload, rev)
        IN \E x \in Exchange(call) :
              /\ Do("acls.append_", [path |-> path, payload |-> payload, rev |-> rev],
                    <<call>>, <<x.resp>>, http_result(x.resp), x.remote)
              /\ UNCHANGED created

AclsSubtract ==
    /\ Turn("acls")
    /\ \E subpath \in Subpaths, permissions \in Permissions, identity \in Identities, rev \in Revs :
        LET call == acls_subtract_call(subpath, permissions, identity, rev)
        IN \E x \in Exchange(call) :
              /\ Do("acls.subtract", [subpath |-> subpath, permissions |-> permissions, identity |-> identity, rev |-> rev],
                    <<call>>, <<x.resp>>, http_result(x.resp), x.remote)
              /\ UNCHANGED created

AclsSubtract_ ==
    /\ Turn("acls")
    /\ \E path \in AclPaths, payload \in AclPayloads, rev \in Revs :
        LET call == acls_subtract__call(path, payload, rev)
        IN \E x \in Exchange(call) :
              /\ Do("acls.subtract_", [path |-> path, payload |-> payload, rev |-> rev],
                    <<call>>, <<x.resp>>, http_result(x.resp), x.remote)
              /\ UNCHANGED created

AclsDelete ==
    /\ Turn("acls")
    /\ \E subpath \in Subpaths, rev \in Revs :
        LET call == acls_delete_call(subpath, rev)
        IN \E x \in Exchange(call) :
              /\ Do("acls.delete", [subpath |-> subpath, rev |-> rev],
                    <<call>>, <<x.resp>>, http_result(x.resp), x.remote)
              /\ UNCHANGED created

AclsDelete_ ==
    /\ Turn("acls")
    /\ \E path \in AclPaths, rev \in Revs :
        LET call == acls_delete__call(path, rev)
        IN \E x \in Exchange(call) :
              /\ Do("acls.delete_", [path |-> path, rev |-> rev],
                    <<call>>, <<x.resp>>, http_result(x.resp), x.remote)
              /\ UNCHANGED created

-----------------------------------------------------------------------------
(* The specifications *)

Modules == {"project", "schemas", "acls"}
NoResources == [k \in {} |-> Resource(0, FALSE, {}, {})]

InitWith(t) ==
    /\ transport = t
    /\ module \in Modules
    /\ remote = NoResources
    /\ created = {}
    /\ last = NoCall

Calls ==
    \/ ProjectFetch \/ ProjectCreate \/ ProjectUpdate \/ ProjectDeprecate
    \/ SchemasFetch \/ SchemasCreate \/ SchemasUpdate \/ SchemasDeprecate \/ SchemasTag
    \/ AclsFetch \/ AclsFetch_ \/ AclsList \/ AclsList_
    \/ AclsReplace \/ AclsReplace_ \/ AclsAppend \/ AclsAppend_
    \/ AclsSubtract \/ AclsSubtract_ \/ AclsDelete \/ AclsDelete_

\* A client program driving one module against the remote service.
Init == InitWith("service")
Next ==
    \/ Calls
    \/ ProjectList({None}, {None}, {None})
    \/ SchemasList({None}, {None}, {None})
Spec == Init /\ [][Next]_vars

\* One call, with any arguments, against a mock transport.
InitCall == InitWith("mock")
NextCall ==
    \/ Calls
    \/ ProjectList(PaginationFroms, PaginationSizes, Queries)
    \/ SchemasList(PaginationFroms, PaginationSizes, Queries)
SpecCall == InitCall /\ [][NextCall]_vars

-----------------------------------------------------------------------------
(* The properties *)

Returned == last.outcome.kind = "return"
Raised == last.outcome.kind = "raise"
Url(i) == full_url(last.reqs[i])
k_rev == <<"r", "e", "v">>
k_tag == <<"t", "a", "g">>
k_from == <<"f", "r", "o", "m">>
k_size == <<"s", "i", "z", "e">>
k_deprecated == <<"d", "e", "p", "r", "e", "c", "a", "t", "e", "d">>
k_q == <<"q">>

\* C1: schemas.fetch with both rev and tag given fails with the mutual-exclusion
\* error and hands no request to the transport.
C1_FetchExclusive ==
    (last.fn = "schemas.fetch" /\ ~IsNone(last.args.rev) /\ ~IsNone(last.args.tag))
        => (last.reqs = <<>> /\ last.resps = <<>> /\ last.outcome = Raise(MutuallyExclusive))

C1_Witness ==
    /\ last.fn = "schemas.fetch"
    /\ last.args.rev = Some(0) /\ last.args.tag = Some(<<"t">>)
    /\ last.reqs = <<>> /\ Raised

\* The functions that change a resource and name its revision.
RevisionedMutators ==
    {"project.update", "project.deprecate", "schemas.update", "schemas.deprecate", "schemas.tag",
     "acls.replace", "acls.replace_", "acls.append", "acls.append_",
     "acls.subtract", "acls.subtract_", "acls.delete", "acls.delete_"}

\* The request names a revision that is not the current one of the resource it addresses.
Stale(call) ==
    \E url \in {full_url(call)} : \E u \in {ParseUrl(url)} : \E key \in {KeyOf(u)} :
       /\ module = "acls" \/ key \in DOMAIN remote
       /\ RevParam(u) # {str(CurrentRev(remote, key))}

\* C2: a mutating call whose revision is stale is answered with a conflict and
\* fails: it returns nothing and leaves the remote resources as they were.
C2_StaleRejected ==
    [][(last'.fn \in RevisionedMutators /\ Stale(last'.reqs[1]))
          => /\ last'.resps[1].status_code = 409
             /\ last'.outcome.kind = "raise"
             /\ remote' = remote]_vars

C2_Witness ==
    /\ last.fn = "project.deprecate"
    /\ last.resps[1].status_code = 409
    /\ Raised
    /\ PathOf(Url(1)) \in DOMAIN remote

\* C3: once project.create(org, project) has succeeded, project.fetch(org, project)
\* addresses the path create addressed, succeeds when no revision is asked for, and
\* a payload it returns carries the labels given, whatever else has been created.
C3_CreateThenFetch ==
    last.fn = "project.fetch" =>
        \A c \in created :
            (c.org_label = last.args.org_label /\ c.project_label = last.args.project_label)
                => /\ PathOf(last.reqs[1].path.str) = c.url
                   /\ IsNone(last.args.rev) => Returned
                   /\ Returned => /\ last.outcome.value._label = last.args.project_label
                                  /\ last.outcome.value._organizationLabel = last.args.org_label

C3_Witness ==
    /\ last.fn = "project.fetch"
    /\ Cardinality(created) = 2
    /\ \E c \in created : c.org_label = last.args.org_label /\ c.project_label = last.args.project_label
    /\ Returned
    /\ last.outcome.value._label = <<"b">>

\* C4: a deprecated project or schema stays deprecated at its revision, and no
\* update of it succeeds.
C4_DeprecationTerminal ==
    [][\A k \in DOMAIN remote :
          remote[k].deprecated
              => /\ k \in DOMAIN remote'
                 /\ remote'[k].deprecated
                 /\ remote'[k].rev = remote[k].rev
                 /\ (last'.fn \in {"project.update", "schemas.update"}
                        /\ ResourceKey(full_url(last'.reqs[1])) = k)
                      => last'.outcome.kind = "raise"]_vars

C4_Witness ==
    /\ last.fn = "project.update"
    /\ LET k == ResourceKey(Url(1))
       IN k \in DOMAIN remote /\ remote[k].deprecated
             /\ last.args.project._rev = remote[k].rev
    /\ IsNone(last.args.previous_rev)
    /\ Raised

Mutating(call) == call.verb \in {"PUT", "POST", "PATCH", "DELETE"}

\* The revision the caller of a revisioned mutator gave.
CallerRev ==
    IF last.fn = "project.update"
    THEN (IF IsNone(last.args.previous_rev) THEN last.args.project._rev
          ELSE Val(last.args.previous_rev))
    ELSE IF last.fn \in {"schemas.update", "schemas.deprecate", "schemas.tag"}
    THEN (IF IsNone(last.args.previous_rev) THEN last.args.schema._rev
          ELSE Val(last.args.previous_rev))
    ELSE IF last.fn = "project.deprecate" THEN last.args.previous_rev
    ELSE last.args.rev

\* C5 as stated: every PUT, POST, PATCH or DELETE request carries a rev parameter.
C5_EveryMutationHasRev ==
    \A i \in 1..Len(last.reqs) : Mutating(last.reqs[i]) => QueryHas(Url(i), k_rev)

\* C5, amended: every mutating request of a function other than project.create and
\* schemas.create carries the caller's revision as its rev parameter; the requests
\* of the two create functions carry no rev parameter.
C5_MutationOfExistingHasRev ==
    \A i \in 1..Len(last.reqs) :
        Mutating(last.reqs[i])
            => IF last.fn \in {"project.create", "schemas.create"}
               THEN ~QueryHas(Url(i), k_rev)
               ELSE /\ last.fn \in RevisionedMutators
                    /\ QueryGet(Url(i), k_rev) = {str(CallerRev)}

C5_Witness ==
    /\ last.fn = "acls.delete"
    /\ last.reqs[1].verb = "DELETE"
    /\ last.args.rev = 2
    /\ QueryGet(Url(1), k_rev) = {<<"2">>}

\* C6: an optional query parameter is in the request exactly when the caller gave it.
C6_OptionalIffSupplied ==
    /\ (last.fn \in {"project.list", "schemas.list"})
          => /\ QueryHas(Url(1), k_deprecated) <=> ~IsNone(last.args.deprecated)
             /\ QueryHas(Url(1), k_q) <=> ~IsNone(last.args.full_text_search_query)
    /\ last.fn = "project.fetch" => (QueryHas(Url(1), k_rev) <=> ~IsNone(last.args.rev))
    /\ (last.fn = "schemas.fetch" /\ last.reqs # <<>>)
          => /\ QueryHas(Url(1), k_rev) <=> ~IsNone(last.args.rev)
             /\ QueryHas(Url(1), k_tag) <=> ~IsNone(last.args.tag)

\* C7: project.list and schemas.list always send from and size first, with the
\* defaults 0 and 20 when the caller gives none, before any deprecated or q.
C7_PaginationFirst ==
    last.fn \in {"project.list", "schemas.list"} =>
        LET ps == Params(Url(1))
        IN /\ Len(ps) >= 2
           /\ ps[1] = [key |-> k_from,
                       value |-> IF IsNone(last.args.pagination_from) THEN <<"0">>
                                 ELSE str(Val(last.args.pagination_from))]
           /\ ps[2] = [key |-> k_size,
                       value |-> IF IsNone(last.args.pagination_size) THEN <<"2", "0">>
                                 ELSE str(Val(last.args.pagination_size))]
           /\ \A i \in 3..Len(ps) : ps[i].key \in {k_deprecated, k_q}

C7_Witness ==
    /\ last.fn = "project.list"
    /\ IsNone(last.args.org_label)
    /\ IsNone(last.args.pagination_from) /\ IsNone(last.args.pagination_size)
    /\ last.args.deprecated = Some(FALSE)
    /\ Len(Params(Url(1))) = 3
    /\ Params(Url(1))[2].value = <<"2", "0">>

\* C8: append sends @type "Append", subtract "Subtract", replace no @type; the
\* acl field holds the one entry given and rev is forwarded as given.
C8_AclPayload ==
    last.fn \in {"acls.replace", "acls.append", "acls.subtract"} =>
        LET body == Val(last.reqs[1].body)
        IN /\ body["acl"] = <<[permissions |-> last.args.permissions,
                               identity |-> last.args.identity]>>
           /\ last.reqs[1].kwargs["rev"] = Some(last.args.rev)
           /\ last.fn = "acls.replace" => DOMAIN body = {"acl"}
           /\ last.fn = "acls.append" => (DOMAIN body = {"acl", "@type"} /\ body["@type"] = "Append")
           /\ last.fn = "acls.subtract" => (DOMAIN body = {"acl", "@type"} /\ body["@type"] = "Subtract")

C8_Witness ==
    /\ last.fn = "acls.subtract"
    /\ Val(last.reqs[1].body)["@type"] = "Subtract"
    /\ last.args.permissions = <<"read", "write">>
    /\ last.reqs[1].kwargs["rev"] = Some(1)

\* The verb each function is to use.
Reads == {"project.fetch", "project.list", "schemas.fetch", "schemas.list",
          "acls.fetch", "acls.fetch_", "acls.list", "acls.list_"}
VerbOf ==
    IF last.fn \in Reads THEN "GET"
    ELSE IF last.fn \in {"project.create", "project.update", "schemas.update", "schemas.tag",
                         "acls.replace", "acls.replace_"} THEN "PUT"
    ELSE IF last.fn = "schemas.create" THEN (IF IsNone(last.args.id) THEN "POST" ELSE "PUT")
    ELSE IF last.fn \in {"acls.append", "acls.append_", "acls.subtract", "acls.subtract_"} THEN "PATCH"
    ELSE "DELETE"

\* C9: each function uses its verb: GET to read, PUT to create with an id, replace,
\* update or tag, POST to create a schema without an id (on the project's path),
\* PATCH to append or subtract, DELETE to deprecate or delete.
C9_Verbs ==
    \A i \in 1..Len(last.reqs) :
        /\ last.reqs[i].verb = VerbOf
        /\ last.fn = "schemas.create"
              => Len(Segments(Url(i))) = IF IsNone(last.args.id) THEN 4 ELSE 5

C9_Witness ==
    /\ last.fn = "schemas.create"
    /\ IsNone(last.args.id)
    /\ last.reqs[1].verb = "POST"
    /\ Len(Segments(Url(1))) = 4

ProjectFunctions == {"project.fetch", "project.create", "project.update", "project.list",
                     "project.deprecate"}

\* C10: a project function issues one request; when the status is outside the
\* success range it raises with the status code and the body and returns
\* nothing, and otherwise it returns the parsed body.
C10_NoRetry ==
    last.fn \in ProjectFunctions =>
        /\ Len(last.reqs) = 1
        /\ Len(last.resps) = 1
        /\ IF is_response_valid(last.resps[1])
           THEN last.outcome = Return(json_loads(last.resps[1].text))
           ELSE /\ Raised
                /\ Len(last.outcome.message) = 7
                /\ last.outcome.message[4] = str(last.resps[1].status_code)
                /\ last.outcome.message[7] = last.resps[1].text

C10_Witness ==
    /\ last.fn = "project.fetch"
    /\ last.resps[1].status_code = 500
    /\ Raised
    /\ last.outcome.message[4] = <<"5", "0", "0">>

\* The functions that take the revision from the payload when none is given.
DefaultingFunctions == {"project.update", "schemas.update", "schemas.deprecate", "schemas.tag"}

\* The payload such a function was called with, and the revision it must send.
PayloadOf(l) == IF l.fn = "project.update" THEN l.args.project ELSE l.args.schema
RevToSend(l) == IF IsNone(l.args.previous_rev) THEN PayloadOf(l)._rev ELSE Val(l.args.previous_rev)

\* C11: project.update, schemas.update, schemas.deprecate and schemas.tag send as rev the
\* payload's _rev when previous_rev is omitted and the given previous_rev otherwise.
\* (the request's query is rev=<that revision>, the resource is the one at its path).
\* So an update with previous_rev omitted succeeds only while the resource is still at
\* the payload's revision, and moves it past that revision for good (revisions never go
\* back): of two clients holding the same revision at most one succeeds. An update
\* with previous_rev given succeeds exactly on that revision being the current one,
\* whatever the revision of the payload.
C11_RevisionDefaulting ==
    [][/\ last'.fn \in DefaultingFunctions
            => \A sent \in {RevToSend(last')}, url \in {StripBase(full_url(last'.reqs[1]))} :
                 \A halves \in {Split(url, "?")} :
                  /\ Len(halves) = 2
                  /\ halves[2] = k_rev \o <<"=">> \o str(sent)
                  /\ (last'.fn \in {"project.update", "schemas.update"}
                         /\ last'.outcome.kind = "return")
                       => /\ halves[1] \in DOMAIN remote
                          /\ remote[halves[1]].rev = sent
                          /\ remote'[halves[1]].rev = sent + 1
                          /\ IsNone(last'.args.previous_rev)
                                => remote'[halves[1]].rev > PayloadOf(last')._rev
       /\ \A k \in DOMAIN remote : k \in DOMAIN remote' /\ remote'[k].rev >= remote[k].rev]_vars

\* A payload fetched at revision 1 is accepted with previous_rev = 2 once the
\* resource has moved to revision 2: the update goes over the intervening change.
C11_Witness ==
    /\ last.fn = "project.update"
    /\ last.args.project._rev = 1
    /\ last.args.previous_rev = Some(2)
    /\ Returned
    /\ remote[ResourceKey(Url(1))].rev = 3

\* The second of two clients that fetched revision 1: its update with previous_rev
\* omitted is refused, the first one's having moved the resource to revision 2.
C11_SecondClientRefused ==
    /\ last.fn = "project.update"
    /\ last.args.project._rev = 1
    /\ IsNone(last.args.previous_rev)
    /\ last.resps[1].status_code = 409
    /\ Raised
    /\ remote[ResourceKey(Url(1))].rev = 2

====
